---- MODULE Spec2Model ----
(***************************************************************************)
(* Model of cdsetool.query: the paginated feature cursor (FeatureQuery,    *)
(* _FeatureIterator) of src/src/cdsetool/query.py driven against an OData  *)
(* catalogue server that serves a finite chain of pages.                   *)
(*                                                                         *)
(* A URL is the sequence of its query-string tokens: every parameter is    *)
(* preceded by its separator ("?" or "&"); the fixed scheme/host/path      *)
(* prefix is left out.  Python's None is the one-token sequence None.      *)
(***************************************************************************)
EXTENDS Integers, Sequences, FiniteSets, TLC

\* ------------------------------------------------------------------ bounds
\* pages in the server's chain
MaxPages == 2
\* records on one page
MaxPageLen == 2
\* the lowest index a caller passes to __getitem__ is -MaxNegative
MaxNegative == 1

\* ------------------------------------------------------- program constants
MAX_BATCH_SIZE == 1000
MaxAttempts == 10
UnknownTotal == -1
DefaultSkip == 0

Callers == {1, 2}
\* the callers of the single-threaded use of a cursor
SingleCaller == {1}
Iters == {1, 2}
Collection == "SENTINEL-1"
None == <<"None">>
Failures == {"ChunkedEncodingError", "ConnectionResetError", "ProtocolError"}

\* the indices a caller passes to __getitem__ of a cursor over n records:
\* negative ones count from the end, n and n + 1 are past the end
Indices(n) == (0 - MaxNegative)..(n + 1)
\* the values of search_terms["top"] a cursor is constructed with
TopRequests == {-1, 0, MAX_BATCH_SIZE + 1}

VARIABLES
    \* the FeatureQuery object
    total_results, features, next_url, top,
    \* the catalogue server
    chain, sends_count, declared,
    \* each caller's frames: where it is, the operation it runs, the locals
    \* of __fetch_features, and what the cursor was when it entered
    pc, op, attempts, req, saw, io, pre, fpre, ret,
    \* the _FeatureIterator objects, what each has yielded, and whether it
    \* has raised StopIteration
    it_index, yielded, stopped,
    \* the pages answered with 200 so far, how the last fetch ended, and the
    \* first value __len__ returned
    fetched, last_fetch, first_len,
    \* the call of query_features: its arguments, where it is, the key of the
    \* loop of _build_odata_filter, the clauses so far, the error raised, the
    \* warnings logged
    search_terms, options, qpc, qi, filters, error, logged,
    \* the call of describe_collection: its argument, what the Attributes
    \* endpoint answers, where the call is, the attribute of the loop, the
    \* mapping built, what the call returned or raised
    collection, endpoint, dpc, di, terms, described,
    \* the call of a function of the module on its own: the function, its
    \* argument, and what it returned (nothing yet: <<>>)
    called, argument, result

cursor == <<total_results, features, next_url, top>>
server == <<chain, sends_count, declared>>
fetch_locals == <<attempts, req, saw>>
locals == <<pc, op, fetch_locals, io, pre, fpre, ret>>
iters == <<it_index, yielded, stopped>>
history == <<fetched, last_fetch, first_len>>
construction == <<search_terms, options, qpc, qi, filters, error, logged>>
description == <<collection, endpoint, dpc, di, terms, described>>
application == <<called, argument, result>>
\* what the operations of a constructed cursor leave alone
others == <<construction, description, application>>
vars == <<cursor, server, locals, iters, history, construction, description,
         application>>

\* ------------------------------------------------------------ sequences
Range(s) == {s[i] : i \in 1..Len(s)}

Min(S) == CHOOSE x \in S : \A y \in S : x <= y

IsPrefix(s, t) == Len(s) <= Len(t) /\ SubSeq(t, 1, Len(s)) = s

RECURSIVE Sum(_)
Sum(s) == IF s = <<>> THEN 0 ELSE s[1] + Sum(Tail(s))

RECURSIVE SeqsUpTo(_, _)
SeqsUpTo(S, n) ==
    IF n = 0 THEN {<<>>}
    ELSE LET shorter == SeqsUpTo(S, n - 1)
         IN shorter \cup {Append(s, x) : s \in {t \in shorter : Len(t) = n - 1}, x \in S}

\* ------------------------------------------------------------------ URLs
TopParam(t) == "$top=" \o ToString(t)
SkipParam(k) == "$skip=" \o ToString(k)

IsSep(t) == t \in {"&", "?"}
IsCountParam(t) == t \in {"$count=true", "%24count=true"}

\* '&'.join(params) behind the "?" that ends the path
RECURSIVE JoinFrom(_, _)
JoinFrom(params, first) ==
    IF params = <<>> THEN <<>>
    ELSE <<(IF first THEN "?" ELSE "&"), params[1]>> \o JoinFrom(Tail(params), FALSE)

Join(params) == JoinFrom(params, TRUE)

\* re.sub(r"[&?](\$|%24)count=true", "", url, count=1): the leftmost match
CountMatches(url) ==
    {i \in 1..(Len(url) - 1) : IsSep(url[i]) /\ IsCountParam(url[i + 1])}

RemoveFirstCount(url) ==
    IF CountMatches(url) = {} THEN url
    ELSE LET i == Min(CountMatches(url))
         IN SubSeq(url, 1, i - 1) \o SubSeq(url, i + 2, Len(url))

\* url.replace("&", "?", 1)
ReplaceFirstAmp(url) ==
    LET i == Min({j \in 1..Len(url) : url[j] = "&"})
    IN [url EXCEPT ![i] = "?"]

strip_odata_count(url) ==
    LET u == RemoveFirstCount(url)
    IN IF "?" \notin Range(u) /\ "&" \in Range(u) THEN ReplaceFirstAmp(u) ELSE u

build_query_url(t, initial_skip, include_count, expand_attributes) ==
    Join(<<"$filter", TopParam(t), "$orderby">>
         \o (IF initial_skip > 0 THEN <<SkipParam(initial_skip)>> ELSE <<>>)
         \o (IF include_count THEN <<"$count=true">> ELSE <<>>)
         \o (IF expand_attributes THEN <<"$expand=Attributes">> ELSE <<>>))

\* ----------------------------------------------------------- construction
\* a top that is taken as requested
InitTopUnclamped(requested) == requested

\* self._top: the requested top, clamped to MAX_BATCH_SIZE
InitTop(requested) ==
    IF requested > MAX_BATCH_SIZE THEN MAX_BATCH_SIZE ELSE requested

\* ---------------------------------------------------------------- server
\* The catalogue serves the chain of pages chain[1..]: page k holds chain[k]
\* records, numbered through the chain.  Odd records come with a Collection
\* value of the server's own, even ones with none.
Total(ch) == Sum(ch)

Offset(ch, k) == Sum(SubSeq(ch, 1, k - 1))

ServerRecord(n) ==
    [Id |-> n, Collection |-> IF n % 2 = 1 THEN "server-value" ELSE "absent"]

PageRecords(ch, k) == [j \in 1..ch[k] |-> ServerRecord(Offset(ch, k) + j)]

\* the page a URL asks for: the link to page k + 1 carries $skip=k
PageOf(url) ==
    IF \E k \in 1..MaxPages + 1 : SkipParam(k) \in Range(url)
    THEN 1 + (CHOOSE k \in 1..MaxPages + 1 : SkipParam(k) \in Range(url))
    ELSE 1

InsertAt(s, pos, x) == SubSeq(s, 1, pos) \o <<x>> \o SubSeq(s, pos + 1, Len(s))

\* "@odata.nextLink" to the page after page k: the request's options, with
\* the count option echoed in either spelling at any position, or left out
NextLinks(t, k) ==
    LET base == <<"$filter", TopParam(t), "$orderby", SkipParam(k)>>
    IN {Join(base)} \cup
       {Join(InsertAt(base, pos, cp)) :
            pos \in 0..Len(base), cp \in {"$count=true", "%24count=true"}}

\* the JSON bodies the server may answer a GET of url with, status 200
Responses(url) ==
    LET k == PageOf(url)
        asked == \E i \in 1..Len(url) : IsCountParam(url[i])
    IN IF k < Len(chain)
       THEN {[value |-> PageRecords(chain, k),
              has_count |-> sends_count /\ asked, count |-> declared,
              has_next |-> TRUE, next_link |-> l] : l \in NextLinks(top, k)}
       ELSE {[value |-> PageRecords(chain, k),
              has_count |-> sends_count /\ asked, count |-> declared,
              has_next |-> FALSE, next_link |-> None]}

\* ------------------------------------------------------------- the cursor
NoOp == [kind |-> "none", index |-> 0, iter |-> 0]
Snapshot == [features |-> features, total_results |-> total_results,
             next_url |-> next_url]
NoSnapshot == [features |-> <<>>, total_results |-> UnknownTotal, next_url |-> None]
NoRet == [kind |-> "none", status |-> "none", len |-> 0, io |-> FALSE]

\* the counts the server of chain ch may declare in "@odata.count"
Counts(ch) == {0, Total(ch), Total(ch) + 1}

\* no exception raised
NoError == [kind |-> "none", message |-> "none", about |-> <<>>]

\* options: what the constructor reads of it, and validate_search_terms
DefaultOptions == [expand_attributes |-> FALSE, validate_search_terms |-> TRUE]

\* the constructor has returned the cursor
Constructed ==
    /\ search_terms = <<>>
    /\ options = DefaultOptions
    /\ qpc = "cursor"
    /\ qi = 1
    /\ filters = <<>>
    /\ error = NoError
    /\ logged = {}

\* an answer of the Attributes endpoint: its status ("error" when the request
\* fails below HTTP) and the attributes of its body
Answer(status, attributes) == [status |-> status, attributes |-> attributes]

NoDescription == [status |-> "none", keys |-> <<>>, error |-> NoError]

\* no call of describe_collection
NotDescribing ==
    /\ collection = Collection
    /\ endpoint = Answer("200", <<>>)
    /\ dpc = "off"
    /\ di = 1
    /\ terms = <<>>
    /\ described = NoDescription

\* no function called on its own
NotApplying ==
    /\ called = "none"
    /\ argument = <<>>
    /\ result = <<>>

Init ==
    /\ Constructed
    /\ NotDescribing
    /\ NotApplying
    /\ chain \in {ch \in SeqsUpTo(0..MaxPageLen, MaxPages) : Len(ch) >= 1}
    /\ sends_count \in BOOLEAN
    /\ declared \in (IF sends_count THEN Counts(chain) ELSE {0})
    /\ total_results = UnknownTotal
    /\ features = <<>>
    /\ top \in {InitTop(r) : r \in TopRequests}
    /\ next_url = build_query_url(top, DefaultSkip, TRUE, FALSE)
    /\ pc = [c \in Callers |-> "idle"]
    /\ op = [c \in Callers |-> NoOp]
    /\ attempts = [c \in Callers |-> 0]
    /\ req = [c \in Callers |-> None]
    /\ saw = [c \in Callers |-> {}]
    /\ io = [c \in Callers |-> FALSE]
    /\ pre = [c \in Callers |-> NoSnapshot]
    /\ fpre = [c \in Callers |-> NoSnapshot]
    /\ ret = [c \in Callers |-> NoRet]
    /\ it_index = [k \in Iters |-> 0]
    /\ yielded = [k \in Iters |-> <<>>]
    /\ stopped = [k \in Iters |-> FALSE]
    /\ fetched = <<>>
    /\ last_fetch = "none"
    /\ first_len = <<>>

\* ---------------------------------------------------------------- helpers
\* features[index], Python list indexing: a negative index counts from the end
InRange(index) == 0 - Len(features) <= index /\ index < Len(features)

PyItem(index) ==
    IF index >= 0 THEN features[index + 1] ELSE features[Len(features) + index + 1]

\* a stamp that fills in Collection only where the server sent none
StampMissingOnly(products) ==
    [j \in 1..Len(products) |->
        IF products[j].Collection = "absent"
        THEN [products[j] EXCEPT !.Collection = Collection]
        ELSE products[j]]

\* for product in products: product["Collection"] = self.collection
Stamp(products) ==
    [j \in 1..Len(products) |-> [products[j] EXCEPT !.Collection = Collection]]

\* a cursor that keeps only the page it fetched last
ExtendOverwrites(fs, products) == Stamp(products)

\* a cursor that puts each new page in front of the ones it holds
ExtendPrepends(fs, products) == Stamp(products) \o fs

\* a cursor that drops the answer to a page it already holds
ExtendUnlessCached(fs, products) ==
    IF products # <<>> /\ \E i \in 1..Len(fs) : fs[i] = Stamp(products)[1]
    THEN fs
    ELSE fs \o Stamp(products)

\* self.features.extend(products)
Extend(fs, products) == fs \o Stamp(products)

\* if total_results := odata_response.get("@odata.count"): the walrus tests
\* the value's truth, and a count of 0 is false
CountIsTruthy(response) == response.has_count /\ response.count # 0

NewTotal(response) ==
    IF CountIsTruthy(response) THEN response.count ELSE total_results

\* a continuation link followed whatever the page size
set_next_url_any_top(response) ==
    IF response.has_next /\ response.next_link # <<>>
    THEN strip_odata_count(response.next_link)
    ELSE None

\* a __set_next_url that keeps the continuation link as the server sent it
set_next_url_unstripped(response) ==
    IF response.has_next /\ response.next_link # <<>> /\ top > 0
    THEN response.next_link
    ELSE None

\* a __set_next_url that keeps the URL it has when the answer has no link
set_next_url_keeps_last(response) ==
    IF response.has_next /\ response.next_link # <<>> /\ top > 0
    THEN strip_odata_count(response.next_link)
    ELSE next_url

\* __set_next_url
set_next_url(response) ==
    IF response.has_next /\ response.next_link # <<>> /\ top > 0
    THEN strip_odata_count(response.next_link)
    ELSE None

\* a __getitem__ that fetches on to the last page whatever the index
NeedsFetchEager(index) == next_url # None

\* a __getitem__ that fetches whenever the cache cannot resolve the index
NeedsFetchWhenOutside(index) == ~InRange(index) /\ next_url # None

\* while index >= len(self.features) and self.next_url is not None
NeedsFetch(index) == index >= Len(features) /\ next_url # None

\* a __fetch_features without its "if self.next_url is None: return"
LenFetchesWhenUnknown == total_results < 0

\* a __len__ that fetches whenever a page is left
LenFetchesWhenMore == next_url # None

\* if self.total_results < 0: self.__fetch_features(), which returns at once
\* when self.next_url is None
LenNeedsFetch == total_results < 0 /\ next_url # None

\* a __next__ that lets the IndexError through
RaisedAsIndexError(kind) == "IndexError"

\* the IndexError of self.features[index]; __next__ raises StopIteration from it
RaisedAs(kind) == IF kind = "next" THEN "StopIteration" ELSE "IndexError"

LenRet(n, did_io) == [kind |-> "len", status |-> "ok", len |-> n, io |-> did_io]

ItemRet(kind, status, did_io) ==
    [kind |-> kind, status |-> status, len |-> 0, io |-> did_io]

RecordLen(n) == IF first_len = <<>> THEN <<n>> ELSE first_len

\* the operation of caller c returns: its frame and its locals are gone
Return(c, r) ==
    /\ pc' = [pc EXCEPT ![c] = "idle"]
    /\ ret' = [ret EXCEPT ![c] = r]
    /\ op' = [op EXCEPT ![c] = NoOp]
    /\ io' = [io EXCEPT ![c] = FALSE]
    /\ pre' = [pre EXCEPT ![c] = NoSnapshot]

\* __fetch_features is entered with a next_url: session, attempts = 0
EnterFetch(c) ==
    /\ pc' = [pc EXCEPT ![c] = "fetch"]
    /\ attempts' = [attempts EXCEPT ![c] = 0]
    /\ fpre' = [fpre EXCEPT ![c] = Snapshot]

\* __fetch_features returns to the frame that called it: __len__ returns
\* self.total_results, __getitem__ goes back to its loop test
FetchReturns(c, total) ==
    /\ attempts' = [attempts EXCEPT ![c] = 0]
    /\ req' = [req EXCEPT ![c] = None]
    /\ fpre' = [fpre EXCEPT ![c] = NoSnapshot]
    /\ IF op[c].kind = "len"
       THEN /\ Return(c, LenRet(total, TRUE))
            /\ first_len' = RecordLen(total)
       ELSE /\ pc' = [pc EXCEPT ![c] = "getitem"]
            /\ io' = [io EXCEPT ![c] = TRUE]
            /\ UNCHANGED <<ret, op, pre, first_len>>

\* a 200 answer to the GET of url: lines 240 to 256 of __fetch_features
On200(c, url, response) ==
    /\ features' = Extend(features, response.value)
    /\ total_results' = NewTotal(response)
    /\ next_url' = set_next_url(response)
    /\ fetched' = Append(fetched, PageOf(url))
    /\ last_fetch' = "ok"
    /\ saw' = [saw EXCEPT ![c] = {}]
    /\ FetchReturns(c, NewTotal(response))
    /\ UNCHANGED <<top, server, iters>>

\* a retry loop that ends without a page and leaves next_url as it is
OnGiveUpKeepsUrl(c) ==
    /\ last_fetch' = "gave_up"
    /\ FetchReturns(c, total_results)
    /\ UNCHANGED <<cursor, server, iters, fetched, saw>>

\* the retry loop ended without a page: lines 261 and 262
OnGiveUp(c) ==
    /\ next_url' = None
    /\ last_fetch' = "gave_up"
    /\ FetchReturns(c, total_results)
    /\ UNCHANGED <<total_results, features, top, server, iters, fetched, saw>>

\* ------------------------------------------------------------- operations
\* FeatureQuery.__len__
Len_(c) ==
    /\ pc[c] = "idle"
    /\ IF LenNeedsFetch
       THEN /\ EnterFetch(c)
            /\ op' = [op EXCEPT ![c] = [kind |-> "len", index |-> 0, iter |-> 0]]
            /\ pre' = [pre EXCEPT ![c] = Snapshot]
            /\ ret' = [ret EXCEPT ![c] = NoRet]
            /\ UNCHANGED <<io, first_len>>
       ELSE /\ Return(c, LenRet(total_results, FALSE))
            /\ first_len' = RecordLen(total_results)
            /\ UNCHANGED <<attempts, fpre>>
    /\ UNCHANGED <<cursor, server, req, saw, iters, fetched, last_fetch>>

\* FeatureQuery.__getitem__, entered by a caller
GetItem(c, index) ==
    /\ pc[c] = "idle"
    /\ op' = [op EXCEPT ![c] = [kind |-> "get", index |-> index, iter |-> 0]]
    /\ pre' = [pre EXCEPT ![c] = Snapshot]
    /\ ret' = [ret EXCEPT ![c] = NoRet]
    /\ pc' = [pc EXCEPT ![c] = "getitem"]
    /\ UNCHANGED <<cursor, server, fetch_locals, io, fpre, iters, history>>

\* an iteration that goes on where the one before it stopped
IterKeepsPosition(c, k) ==
    /\ pc[c] = "idle"
    /\ yielded' = [yielded EXCEPT ![k] = <<>>]
    /\ stopped' = [stopped EXCEPT ![k] = FALSE]
    /\ UNCHANGED <<it_index, cursor, server, locals, history>>

\* FeatureQuery.__iter__: a new _FeatureIterator at index 0
Iter(c, k) ==
    /\ pc[c] = "idle"
    /\ it_index' = [it_index EXCEPT ![k] = 0]
    /\ yielded' = [yielded EXCEPT ![k] = <<>>]
    /\ stopped' = [stopped EXCEPT ![k] = FALSE]
    /\ UNCHANGED <<cursor, server, locals, history>>

\* _FeatureIterator.__next__: self.feature_query[self.index]
IterNext(c, k) ==
    /\ pc[c] = "idle"
    /\ op' = [op EXCEPT ![c] = [kind |-> "next", index |-> it_index[k], iter |-> k]]
    /\ pre' = [pre EXCEPT ![c] = Snapshot]
    /\ ret' = [ret EXCEPT ![c] = NoRet]
    /\ pc' = [pc EXCEPT ![c] = "getitem"]
    /\ UNCHANGED <<cursor, server, fetch_locals, io, fpre, iters, history>>

\* the loop test of __getitem__ and, when it fails, return self.features[index];
\* __next__ advances on an item and turns IndexError into StopIteration
GetItemLoop(c) ==
    /\ pc[c] = "getitem"
    /\ IF NeedsFetch(op[c].index)
       THEN /\ EnterFetch(c)
            /\ UNCHANGED <<ret, op, io, pre, iters>>
       ELSE /\ UNCHANGED <<attempts, fpre>>
            /\ IF InRange(op[c].index)
               THEN /\ Return(c, ItemRet(op[c].kind, "ok", io[c]))
                    /\ IF op[c].kind = "next"
                       THEN /\ it_index' = [it_index EXCEPT
                                              ![op[c].iter] = it_index[op[c].iter] + 1]
                            /\ yielded' = [yielded EXCEPT ![op[c].iter] =
                                             Append(yielded[op[c].iter], PyItem(op[c].index))]
                            /\ UNCHANGED stopped
                       ELSE UNCHANGED iters
               ELSE /\ Return(c, ItemRet(op[c].kind, RaisedAs(op[c].kind), io[c]))
                    /\ IF op[c].kind = "next"
                       THEN /\ stopped' = [stopped EXCEPT ![op[c].iter] = TRUE]
                            /\ UNCHANGED <<it_index, yielded>>
                       ELSE UNCHANGED iters
    /\ UNCHANGED <<cursor, server, req, saw, history>>

\* FeatureQuery.__fetch_features from its retry loop to its return, in one
\* step: either one of the MaxAttempts attempts is answered 200, the ones
\* before it having failed, or all of them fail
FetchFeatures(c) ==
    /\ pc[c] = "fetch"
    /\ \/ /\ \E nfail \in 0..(MaxAttempts - 1) : nfail + 1 <= MaxAttempts
          /\ \E response \in Responses(next_url) : On200(c, next_url, response)
       \/ OnGiveUp(c)

\* ---------------------------------------- the retry loop, attempt by attempt
\* a retry loop that never runs out of attempts
HttpGetUnbounded(c) ==
    /\ pc[c] = "fetch"
    /\ attempts' = [attempts EXCEPT ![c] = attempts[c] + 1]
    /\ req' = [req EXCEPT ![c] = next_url]
    /\ saw' = [saw EXCEPT ![c] = IF attempts[c] = 0 THEN {} ELSE saw[c]]
    /\ pc' = [pc EXCEPT ![c] = "await"]
    /\ UNCHANGED <<cursor, server, op, io, pre, fpre, ret, iters, history>>

\* one pass of the retry loop: attempts += 1; session.get(self.next_url)
HttpGet(c) ==
    /\ pc[c] = "fetch"
    /\ attempts[c] < MaxAttempts
    /\ attempts' = [attempts EXCEPT ![c] = attempts[c] + 1]
    /\ req' = [req EXCEPT ![c] = next_url]
    /\ saw' = [saw EXCEPT ![c] = IF attempts[c] = 0 THEN {} ELSE saw[c]]
    /\ pc' = [pc EXCEPT ![c] = "await"]
    /\ UNCHANGED <<cursor, server, op, io, pre, fpre, ret, iters, history>>

\* the server answers 200
Response200(c) ==
    /\ pc[c] = "await"
    /\ req[c] # None
    /\ \E response \in Responses(req[c]) : On200(c, req[c], response)

\* the server answers another status: log, then sleep(60 * (1 + random() / 4))
ResponseNon200(c) ==
    /\ pc[c] = "await"
    /\ pc' = [pc EXCEPT ![c] = "sleep"]
    /\ saw' = [saw EXCEPT ![c] = saw[c] \cup {"status"}]
    /\ UNCHANGED <<cursor, server, op, attempts, req, io, pre, fpre, ret, iters, history>>

\* the sleep ends: continue
Sleep(c) ==
    /\ pc[c] = "sleep"
    /\ pc' = [pc EXCEPT ![c] = "fetch"]
    /\ UNCHANGED <<cursor, server, op, fetch_locals, io, pre, fpre, ret, iters, history>>

\* session.get raises one of the caught exceptions: log, continue
ResponseError(c, e) ==
    /\ pc[c] = "await"
    /\ e \in Failures
    /\ pc' = [pc EXCEPT ![c] = "fetch"]
    /\ saw' = [saw EXCEPT ![c] = saw[c] \cup {"exception"}]
    /\ UNCHANGED <<cursor, server, op, attempts, req, io, pre, fpre, ret, iters, history>>

\* the retry loop ends without a page
GiveUp(c) ==
    /\ pc[c] = "fetch"
    /\ attempts[c] >= MaxAttempts
    /\ OnGiveUp(c)

\* ---------------------------------------------------------- specifications
\* a cursor used by one caller through every public operation: the length,
\* random access, and iterations run one after the other
Next ==
    \E c \in SingleCaller :
        \/ Len_(c) /\ UNCHANGED others
        \/ \E index \in Indices(Total(chain)) : GetItem(c, index) /\ UNCHANGED others
        \/ Iter(c, 1) /\ UNCHANGED others
        \/ IterNext(c, 1) /\ UNCHANGED others
        \/ GetItemLoop(c) /\ UNCHANGED others
        \/ FetchFeatures(c) /\ UNCHANGED others

Spec == Init /\ [][Next]_vars

\* one caller that asks for the length and steps several iterators over the
\* same cursor in any interleaving
NextIter ==
    \E c \in SingleCaller :
        \/ Len_(c) /\ UNCHANGED others
        \/ \E k \in Iters : Iter(c, k) /\ UNCHANGED others
        \/ \E k \in Iters : IterNext(c, k) /\ UNCHANGED others
        \/ GetItemLoop(c) /\ UNCHANGED others
        \/ FetchFeatures(c) /\ UNCHANGED others

SpecIter == Init /\ [][NextIter]_vars

\* one caller that asks for the length and walks one iterator, the retry
\* loop of every fetch taken attempt by attempt
NextRetry ==
    \E c \in SingleCaller :
        \/ Len_(c) /\ UNCHANGED others
        \/ IterNext(c, 1) /\ UNCHANGED others
        \/ GetItemLoop(c) /\ UNCHANGED others
        \/ HttpGet(c) /\ UNCHANGED others
        \/ Response200(c) /\ UNCHANGED others
        \/ ResponseNon200(c) /\ UNCHANGED others
        \/ Sleep(c) /\ UNCHANGED others
        \/ \E e \in Failures : ResponseError(c, e) /\ UNCHANGED others
        \/ GiveUp(c) /\ UNCHANGED others

SpecRetry == Init /\ [][NextRetry]_vars

\* --------------------------------------------------- two callers, one cursor
\* two threads call __len__ and __getitem__ on one cursor with nothing that
\* orders them: each line of the retry loop that sends a GET or takes its
\* answer is a step of its own; each thread makes one call, and the server
\* answers every GET with 200, declares its total, serves pages of one size
\* and has its links followed
InitRace ==
    /\ Init
    /\ top = MAX_BATCH_SIZE
    /\ sends_count /\ declared = Total(chain)
    /\ \A k \in 1..Len(chain) : chain[k] = chain[1]

NextRace ==
    \E c \in Callers :
        \/ ret[c] = NoRet /\ Len_(c) /\ UNCHANGED others
        \/ \E index \in Indices(Total(chain)) :
               ret[c] = NoRet /\ GetItem(c, index) /\ UNCHANGED others
        \/ GetItemLoop(c) /\ UNCHANGED others
        \/ HttpGet(c) /\ UNCHANGED others
        \/ Response200(c) /\ UNCHANGED others

SpecRace == InitRace /\ [][NextRace]_vars

\* ------------------------------------------------- a caller that goes on
\* a 200 answer with no records and a continuation link back to the URL
\* that was asked for
LoopedResponse(url) ==
    [value |-> <<>>, has_count |-> FALSE, count |-> 0,
     has_next |-> TRUE, next_link |-> url]

\* __fetch_features from its retry loop to its return, in one step, when
\* the answer is such a page: lines 240 to 256
FetchLooped(c) ==
    /\ pc[c] = "fetch"
    /\ features' = Extend(features, LoopedResponse(next_url).value)
    /\ total_results' = NewTotal(LoopedResponse(next_url))
    /\ next_url' = set_next_url(LoopedResponse(next_url))
    /\ last_fetch' = "looped"
    /\ saw' = [saw EXCEPT ![c] = {}]
    /\ FetchReturns(c, NewTotal(LoopedResponse(next_url)))
    /\ UNCHANGED <<top, server, iters, fetched>>

\* one caller that calls __getitem__ and steps one iterator, against a
\* server that may refuse or fail any attempt, answer, or answer with a link
\* that leads back
NextLive ==
    \E c \in SingleCaller :
        \/ \E index \in Indices(Total(chain)) : GetItem(c, index) /\ UNCHANGED others
        \/ IterNext(c, 1) /\ UNCHANGED others
        \/ GetItemLoop(c) /\ UNCHANGED others
        \/ FetchFeatures(c) /\ UNCHANGED others
        \/ FetchLooped(c) /\ UNCHANGED others

\* the code of a call, once entered, runs on to its return: the loop test of
\* __getitem__, and the retry loop, whose every GET is answered in some way
Running(c) ==
    \/ GetItemLoop(c)
    \/ FetchFeatures(c)
    \/ FetchLooped(c)

\* a call runs on, and the for loop over the cursor calls __next__ again
\* whenever the call before has returned
Fairness ==
    \A c \in SingleCaller :
        /\ WF_vars(Running(c) /\ UNCHANGED others)
        /\ SF_vars(IterNext(c, 1) /\ UNCHANGED others)

\* a fresh cursor that follows links, on a server that declares its total
\* and serves pages of one size
InitLive ==
    /\ Init
    /\ top = MAX_BATCH_SIZE
    /\ sends_count /\ declared = Total(chain)
    /\ \A k \in 1..Len(chain) : chain[k] = chain[1]

SpecLive == InitLive /\ [][NextLive]_vars /\ Fairness

\* ------------------------------------------------------- strings of values
\* A value is the sequence of its characters.
RECURSIVE LStrip(_)
LStrip(s) == IF s # <<>> /\ s[1] = " " THEN LStrip(Tail(s)) ELSE s

RECURSIVE RStrip(_)
RStrip(s) ==
    IF s # <<>> /\ s[Len(s)] = " " THEN RStrip(SubSeq(s, 1, Len(s) - 1)) ELSE s

\* str.strip()
Strip(s) == RStrip(LStrip(s))

\* str.split(",")
RECURSIVE Split(_)
Split(s) ==
    IF "," \notin Range(s)
    THEN <<s>>
    ELSE LET i == Min({j \in 1..Len(s) : s[j] = ","})
         IN <<SubSeq(s, 1, i - 1)>> \o Split(SubSeq(s, i + 1, Len(s)))

\* str.lower(), for the letters the values are written with
LowerChar(ch) == IF ch = "T" THEN "t" ELSE IF ch = "F" THEN "f" ELSE ch
Lower(s) == [j \in 1..Len(s) |-> LowerChar(s[j])]

Digits == {"0", "1", "2", "7"}
DigitValue(ch) == IF ch = "0" THEN 0 ELSE IF ch = "1" THEN 1 ELSE IF ch = "2" THEN 2 ELSE 7

\* int(value) accepts the decimal digits, surrounding whitespace ignored
IsIntLiteral(s) == Strip(s) # <<>> /\ Range(Strip(s)) \subseteq Digits

RECURSIVE DigitsToInt(_)
DigitsToInt(s) ==
    IF s = <<>> THEN 0
    ELSE 10 * DigitsToInt(SubSeq(s, 1, Len(s) - 1)) + DigitValue(s[Len(s)])

\* _to_int of a str (or of an int written out)
to_int(s) == DigitsToInt(Strip(s))

RECURSIVE DropZeros(_)
DropZeros(s) == IF Len(s) > 1 /\ s[1] = "0" THEN DropZeros(Tail(s)) ELSE s

\* str(int(value)) and str(float(value)) of an integer literal
IntStr(s) == DropZeros(Strip(s))
FloatStr(s) == DropZeros(Strip(s)) \o <<".", "0">>

\* _parse_interval
NoInterval == [ok |-> FALSE, start_value |-> <<>>, end_value |-> <<>>,
               start_op |-> "none", end_op |-> "none"]

\* a _parse_interval that reads every bracket as a closed one
parse_interval_closed(value) ==
    LET v == Strip(value)
    IN IF Len(v) < 3 THEN NoInterval
       ELSE IF v[1] \notin {"[", "("} \/ v[Len(v)] \notin {"]", ")"} THEN NoInterval
       ELSE LET parts == Split(SubSeq(v, 2, Len(v) - 1))
            IN IF Len(parts) # 2 THEN NoInterval
               ELSE IF Strip(parts[1]) = <<>> \/ Strip(parts[2]) = <<>> THEN NoInterval
               ELSE [ok |-> TRUE,
                     start_value |-> Strip(parts[1]),
                     end_value |-> Strip(parts[2]),
                     start_op |-> "ge",
                     end_op |-> "le"]

\* a _parse_interval that keeps the blanks around its two values
parse_interval_untrimmed(value) ==
    LET v == Strip(value)
    IN IF Len(v) < 3 THEN NoInterval
       ELSE IF v[1] \notin {"[", "("} \/ v[Len(v)] \notin {"]", ")"} THEN NoInterval
       ELSE LET parts == Split(SubSeq(v, 2, Len(v) - 1))
            IN IF Len(parts) # 2 THEN NoInterval
               ELSE IF Strip(parts[1]) = <<>> \/ Strip(parts[2]) = <<>> THEN NoInterval
               ELSE [ok |-> TRUE,
                     start_value |-> parts[1],
                     end_value |-> parts[2],
                     start_op |-> IF v[1] = "[" THEN "ge" ELSE "gt",
                     end_op |-> IF v[Len(v)] = "]" THEN "le" ELSE "lt"]

parse_interval(value) ==
    LET v == Strip(value)
    IN IF Len(v) < 3 THEN NoInterval
       ELSE IF v[1] \notin {"[", "("} \/ v[Len(v)] \notin {"]", ")"} THEN NoInterval
       ELSE LET parts == Split(SubSeq(v, 2, Len(v) - 1))
            IN IF Len(parts) # 2 THEN NoInterval
               ELSE IF Strip(parts[1]) = <<>> \/ Strip(parts[2]) = <<>> THEN NoInterval
               ELSE [ok |-> TRUE,
                     start_value |-> Strip(parts[1]),
                     end_value |-> Strip(parts[2]),
                     start_op |-> IF v[1] = "[" THEN "ge" ELSE "gt",
                     end_op |-> IF v[Len(v)] = "]" THEN "le" ELSE "lt"]

\* ------------------------------------------------------------------- keys
\* A key is the sequence of a name and the operator suffixes written after
\* it: cloudCoverLt is <<"cloudCover", "Lt">>.  No name of the tables below
\* ends with a suffix.
OPERATOR_SUFFIXES ==
    [Eq |-> "eq", Lt |-> "lt", Le |-> "le", Gt |-> "gt", Ge |-> "ge"]

Suffixes == DOMAIN OPERATOR_SUFFIXES

DATE_FIELD_SPECS ==
    [contentDateStart |-> "ContentDate/Start",
     contentDateEnd |-> "ContentDate/End",
     publicationDate |-> "PublicationDate"]

\* key in _DATE_FILTERS
IsDateFilter(key) ==
    /\ Len(key) \in {1, 2}
    /\ key[1] \in DOMAIN DATE_FIELD_SPECS
    /\ Len(key) = 2 => key[2] \in Suffixes

\* _DATE_FILTERS[key]
DateFilterSpec(key) ==
    [odata_field |-> DATE_FIELD_SPECS[key[1]],
     operator |-> IF Len(key) = 1 THEN "eq" ELSE OPERATOR_SUFFIXES[key[2]],
     interval_only |-> Len(key) = 1]

INTERNAL_PARAMS == {<<"top">>, <<"skip">>}

DEPRECATED_PARAMS ==
    [box |-> "geometry",
     startDate |-> "contentDateStartGt",
     completionDate |-> "contentDateEndLt",
     publishedAfter |-> "publicationDateGt",
     publishedBefore |-> "publicationDateLt",
     maxRecords |-> "top"]

\* a table of deprecated parameters that is empty
NeverDeprecated(key) == FALSE

IsDeprecated(key) == Len(key) = 1 /\ key[1] \in DOMAIN DEPRECATED_PARAMS

\* the entries of ATTRIBUTES the model keeps, one of each Type
ATTRIBUTES ==
    [cloudCover |-> [Type |-> "Double", Title |-> "Cloud cover percentage (0-100)",
                     Collections |-> {"SENTINEL-2"}],
     orbitNumber |-> [Type |-> "Integer", Title |-> "Absolute orbit number",
                      Collections |-> {"SENTINEL-1", "SENTINEL-2"}],
     productType |-> [Type |-> "String", Title |-> "Product type",
                      Collections |-> {"SENTINEL-1", "SENTINEL-2"}],
     processingDate |-> [Type |-> "DateTimeOffset", Title |-> "absent",
                         Collections |-> {"SENTINEL-1", "SENTINEL-2"}],
     sliceProductFlag |-> [Type |-> "Boolean", Title |-> "absent",
                           Collections |-> {"SENTINEL-1"}]]

\* ATTRIBUTES.get(base_name) finds an entry
InRegistry(base_name) == Len(base_name) = 1 /\ base_name[1] \in DOMAIN ATTRIBUTES

\* a _parse_operator_suffix that takes every suffix off the key
parse_every_suffix(key) ==
    IF key # <<>> /\ key[Len(key)] \in Suffixes
    THEN [base_name |-> <<key[1]>>, operator |-> OPERATOR_SUFFIXES[key[Len(key)]]]
    ELSE [base_name |-> key, operator |-> "eq"]

\* _parse_operator_suffix: the key without its last suffix, and the operator
parse_operator_suffix(key) ==
    IF key # <<>> /\ key[Len(key)] \in Suffixes
    THEN [base_name |-> SubSeq(key, 1, Len(key) - 1),
          operator |-> OPERATOR_SUFFIXES[key[Len(key)]]]
    ELSE [base_name |-> key, operator |-> "eq"]

\* ------------------------------------------------------ the filter builder
\* raise ValueError(...): what the message says, and the name it gives
ValueError(message, about) ==
    [kind |-> "ValueError", message |-> message, about |-> about]

Clause(kind, field, operator, value) ==
    [kind |-> kind, field |-> field, op |-> operator, value |-> value]

TYPE_TO_ODATA_ATTR ==
    [String |-> "StringAttribute", Integer |-> "IntegerAttribute",
     Double |-> "DoubleAttribute", DateTimeOffset |-> "DateTimeOffsetAttribute",
     Boolean |-> "BooleanAttribute"]

\* _to_odata_value_str: the text of the value, or the error raised
to_odata_value_str(value, attr_type, attr_name) ==
    CASE attr_type = "StringAttribute" ->
             [error |-> NoError, str |-> <<"'">> \o value \o <<"'">>]
      [] attr_type = "DoubleAttribute" ->
             IF IsIntLiteral(value)
             THEN [error |-> NoError, str |-> FloatStr(value)]
             ELSE [error |-> ValueError("could not convert string to float", value),
                   str |-> <<>>]
      [] attr_type = "IntegerAttribute" ->
             IF IsIntLiteral(value)
             THEN [error |-> NoError, str |-> IntStr(value)]
             ELSE [error |-> ValueError("invalid literal for int()", value),
                   str |-> <<>>]
      [] attr_type = "BooleanAttribute" ->
             IF Lower(value) \in {<<"t", "r", "u", "e">>, <<"f", "a", "l", "s", "e">>}
             THEN [error |-> NoError, str |-> Lower(value)]
             ELSE [error |-> ValueError("Invalid boolean value", attr_name),
                   str |-> <<>>]
      [] OTHER -> [error |-> NoError, str |-> value]

\* _build_attribute_filter: one clause, or the error of the value
build_attribute_filter(attr_name, attr_value, attr_type, operator) ==
    LET v == to_odata_value_str(attr_value, attr_type, attr_name)
    IN [error |-> v.error,
        clauses |-> IF v.error = NoError
                    THEN <<Clause(attr_type, attr_name[1], operator, v.str)>>
                    ELSE <<>>]

\* an operator check that lets every operator through
AnyOperator(attr_type) == FALSE

\* String and Boolean attributes take no operator but eq
OnlyEquality(attr_type) == attr_type \in {"String", "Boolean"}

\* _build_generic_attribute_filters: the clauses of one key, or the error
build_generic_attribute_filters(key, str_value) ==
    LET p == parse_operator_suffix(key)
        base_name == p.base_name
        operator == p.operator
    IN IF ~InRegistry(base_name)
       THEN [error |-> ValueError("parameter is not supported", key), clauses |-> <<>>]
       ELSE
       LET attr_type == ATTRIBUTES[base_name[1]].Type
           odata_attr_type == TYPE_TO_ODATA_ATTR[attr_type]
           has_suffix == key # base_name
           interval == parse_interval(str_value)
       IN IF OnlyEquality(attr_type) /\ operator # "eq"
          THEN [error |-> ValueError("Comparison operators are not supported", base_name),
                clauses |-> <<>>]
          ELSE IF attr_type \in {"Integer", "Double", "DateTimeOffset"} /\ ~has_suffix
          THEN IF ~interval.ok
               THEN [error |-> ValueError("requires interval syntax", key),
                     clauses |-> <<>>]
               ELSE LET lo == build_attribute_filter(base_name, interval.start_value,
                                                     odata_attr_type, interval.start_op)
                        hi == build_attribute_filter(base_name, interval.end_value,
                                                     odata_attr_type, interval.end_op)
                    IN IF lo.error # NoError THEN lo
                       ELSE IF hi.error # NoError THEN hi
                       ELSE [error |-> NoError, clauses |-> lo.clauses \o hi.clauses]
          ELSE IF attr_type \in {"Integer", "Double", "DateTimeOffset"} /\ interval.ok
          THEN [error |-> ValueError("Interval syntax is not allowed", key),
                clauses |-> <<>>]
          ELSE build_attribute_filter(base_name, str_value, odata_attr_type, operator)

\* search_terms.get(key): the value of the key, or the default
HasKey(st, key) == \E j \in 1..Len(st) : st[j].key = key
Get(st, key, default) ==
    IF HasKey(st, key)
    THEN st[CHOOSE j \in 1..Len(st) : st[j].key = key].value
    ELSE default

\* ----------------------------------------------------------- query_features
\* the values the search terms are given
Values ==
    {<<"[", "1", ",", "2", "]">>, <<"(", "1", ",", "2", ")">>,
     <<"[", "1", ",", "2", ")">>, <<"(", "1", ",", "2", "]">>,
     <<" ", "[", "1", ",", " ", "2", "]", " ">>,
     <<"[", "1", ",", "]">>, <<"[", "1", ",", "2", ",", "7", "]">>,
     <<"[", "x", ",", "2", "]">>,
     <<"0">>, <<"7">>, <<"1", "0", "0", "0">>, <<"1", "0", "0", "1">>,
     <<"x">>, <<"T", "r", "u", "e">>, <<"f", "a", "l", "s", "e">>}

Names ==
    DOMAIN DATE_FIELD_SPECS \cup DOMAIN ATTRIBUTES \cup {"name", "geometry", "bogusParam"}

\* the keys the search terms are given: the reserved and the deprecated ones,
\* every name bare and with each suffix, and some with two suffixes
Keys ==
    INTERNAL_PARAMS
    \cup {<<n>> : n \in DOMAIN DEPRECATED_PARAMS}
    \cup {<<n>> : n \in Names}
    \cup {<<n, x>> : n \in Names, x \in Suffixes}
    \cup {<<"cloudCover", "Lt", "Eq">>, <<"contentDateStart", "Lt", "Gt">>,
          <<"top", "Eq">>, <<"box", "Eq">>}

Term(key, value) == [key |-> key, value |-> value]

\* the terms a mapping of two terms starts with: three that are accepted,
\* a deprecated one and an unknown one
Leading ==
    {Term(<<"name">>, <<"x">>),
     Term(<<"top">>, <<"1", "0", "0", "1">>),
     Term(<<"cloudCover">>, <<"[", "1", ",", "2", "]">>),
     Term(<<"box">>, <<"x">>),
     Term(<<"bogusParam">>, <<"7">>)}

\* the mappings query_features is called with: dicts, in insertion order
Mappings ==
    {<<>>}
    \cup {<<Term(k, v)>> : k \in Keys, v \in Values}
    \cup {<<t, Term(k, v)>> : t \in Leading, k \in Keys \ {l.key : l \in Leading},
                              v \in Values}

\* query_features is called; the server holds one page of one record
InitQuery ==
    /\ search_terms \in Mappings
    /\ options \in [expand_attributes : {FALSE}, validate_search_terms : BOOLEAN]
    /\ qpc = "call"
    /\ qi = 1
    /\ filters = <<>>
    /\ error = NoError
    /\ logged = {}
    /\ NotDescribing
    /\ NotApplying
    /\ chain = <<1>>
    /\ sends_count = TRUE
    /\ declared = 1
    /\ total_results = UnknownTotal
    /\ features = <<>>
    /\ top = 0
    /\ next_url = None
    /\ pc = [c \in Callers |-> "idle"]
    /\ op = [c \in Callers |-> NoOp]
    /\ attempts = [c \in Callers |-> 0]
    /\ req = [c \in Callers |-> None]
    /\ saw = [c \in Callers |-> {}]
    /\ io = [c \in Callers |-> FALSE]
    /\ pre = [c \in Callers |-> NoSnapshot]
    /\ fpre = [c \in Callers |-> NoSnapshot]
    /\ ret = [c \in Callers |-> NoRet]
    /\ it_index = [k \in Iters |-> 0]
    /\ yielded = [k \in Iters |-> <<>>]
    /\ stopped = [k \in Iters |-> FALSE]
    /\ fetched = <<>>
    /\ last_fetch = "none"
    /\ first_len = <<>>

not_constructing == <<server, locals, iters, history, description, application>>

\* an exception that is kept while the constructor goes on
RaiseAndGoOn(err) ==
    /\ error' = err
    /\ qi' = qi + 1
    /\ UNCHANGED <<search_terms, options, qpc, filters, logged>>
    /\ UNCHANGED <<cursor, not_constructing>>

\* an exception leaves the constructor: no FeatureQuery is returned
Raise(err) ==
    /\ qpc' = "raised"
    /\ error' = err
    /\ UNCHANGED <<search_terms, options, qi, filters, logged>>
    /\ UNCHANGED <<cursor, not_constructing>>

\* filters.append / filters.extend, and on to the next key
AppendClauses(clauses) ==
    /\ filters' = filters \o clauses
    /\ qi' = qi + 1
    /\ UNCHANGED <<search_terms, options, qpc, error, logged>>
    /\ UNCHANGED <<cursor, not_constructing>>

\* the top asked for: search_terms.get("top", MAX_BATCH_SIZE)
RequestedTop(st) ==
    IF HasKey(st, <<"top">>) THEN to_int(Get(st, <<"top">>, <<>>)) ELSE MAX_BATCH_SIZE

InitialSkip(st) ==
    IF HasKey(st, <<"skip">>) THEN to_int(Get(st, <<"skip">>, <<>>)) ELSE DefaultSkip

TopWarning == "Maximum 'top' value is 1000, setting to 1000"

\* FeatureQuery.__init__ up to the call of _build_query_url, and the first
\* line of _build_odata_filter
QueryFeatures ==
    /\ qpc = "call"
    /\ IF HasKey(search_terms, <<"skip">>)
          /\ ~IsIntLiteral(Get(search_terms, <<"skip">>, <<>>))
       THEN Raise(ValueError("invalid literal for int()", <<"skip">>))
       ELSE IF HasKey(search_terms, <<"top">>)
               /\ ~IsIntLiteral(Get(search_terms, <<"top">>, <<>>))
       THEN Raise(ValueError("invalid literal for int()", <<"top">>))
       ELSE /\ top' = InitTop(RequestedTop(search_terms))
            /\ logged' = IF RequestedTop(search_terms) > MAX_BATCH_SIZE
                         THEN {TopWarning} ELSE {}
            /\ qpc' = "filter"
            /\ qi' = 1
            /\ filters' = <<Clause("collection", "Collection/Name", "eq", <<Collection>>)>>
            /\ UNCHANGED <<search_terms, options, error>>
            /\ UNCHANGED <<total_results, features, next_url, not_constructing>>

\* the loop of _build_odata_filter is at a key
AtKey == qpc = "filter" /\ qi <= Len(search_terms)

\* if key in _INTERNAL_PARAMS: continue
SkipInternal ==
    /\ AtKey
    /\ search_terms[qi].key \in INTERNAL_PARAMS
    /\ AppendClauses(<<>>)

\* if deprecated_message := _DEPRECATED_PARAMS.get(key): raise
RejectDeprecated ==
    /\ AtKey
    /\ search_terms[qi].key \notin INTERNAL_PARAMS
    /\ IsDeprecated(search_terms[qi].key)
    /\ Raise(ValueError("deprecated", <<DEPRECATED_PARAMS[search_terms[qi].key[1]]>>))

\* the key is neither reserved nor deprecated
Live(key) == key \notin INTERNAL_PARAMS /\ ~IsDeprecated(key)

\* if spec := _DATE_FILTERS.get(key)
DateFilter ==
    /\ AtKey
    /\ Live(search_terms[qi].key)
    /\ IsDateFilter(search_terms[qi].key)
    /\ LET key == search_terms[qi].key
           spec == DateFilterSpec(key)
           str_value == search_terms[qi].value
           interval == parse_interval(str_value)
       IN IF spec.interval_only
          THEN IF ~interval.ok
               THEN Raise(ValueError("requires interval syntax", key))
               ELSE AppendClauses(<<Clause("date", spec.odata_field, interval.start_op,
                                    interval.start_value),
                             Clause("date", spec.odata_field, interval.end_op,
                                    interval.end_value)>>)
          ELSE IF interval.ok
               THEN Raise(ValueError("Interval syntax is not allowed", key))
               ELSE AppendClauses(<<Clause("date", spec.odata_field, spec.operator, str_value)>>)

\* elif key in ("name", "nameEq")
NameFilter ==
    /\ AtKey
    /\ search_terms[qi].key \in {<<"name">>, <<"name", "Eq">>}
    /\ AppendClauses(<<Clause("contains", "Name", "contains", search_terms[qi].value)>>)

\* elif key in ("geometry", "geometryEq")
GeometryFilter ==
    /\ AtKey
    /\ search_terms[qi].key \in {<<"geometry">>, <<"geometry", "Eq">>}
    /\ AppendClauses(<<Clause("intersects", "area", "Intersects", search_terms[qi].value)>>)

\* the key goes to _build_generic_attribute_filters
IsGeneric(key) ==
    /\ Live(key)
    /\ ~IsDateFilter(key)
    /\ key \notin {<<"name">>, <<"name", "Eq">>, <<"geometry">>, <<"geometry", "Eq">>}

\* else: filters.extend(_build_generic_attribute_filters(key, str_value))
GenericAttributeFilter ==
    /\ AtKey
    /\ IsGeneric(search_terms[qi].key)
    /\ LET r == build_generic_attribute_filters(search_terms[qi].key,
                                                search_terms[qi].value)
       IN IF r.error # NoError THEN Raise(r.error) ELSE AppendClauses(r.clauses)

\* the rest of _build_query_url: the constructor returns the cursor
BuildQueryUrl ==
    /\ qpc = "filter"
    /\ qi > Len(search_terms)
    /\ qpc' = "cursor"
    /\ next_url' = build_query_url(top, InitialSkip(search_terms), TRUE,
                                   options.expand_attributes)
    /\ UNCHANGED <<search_terms, options, qi, filters, error, logged>>
    /\ UNCHANGED <<total_results, features, top, not_constructing>>

\* query_features, then the length of the cursor it returned
NextQuery ==
    \/ QueryFeatures
    \/ SkipInternal
    \/ RejectDeprecated
    \/ DateFilter
    \/ NameFilter
    \/ GeometryFilter
    \/ GenericAttributeFilter
    \/ BuildQueryUrl
    \/ \E c \in SingleCaller : qpc = "cursor" /\ Len_(c) /\ UNCHANGED others
    \/ \E c \in SingleCaller : qpc = "cursor" /\ FetchFeatures(c) /\ UNCHANGED others

SpecQuery == InitQuery /\ [][NextQuery]_vars

\* ------------------------------------------------------ describe_collection
MaxServerAttributes == 2

\* the collections describe_collection is asked about
DescribedCollections == {"SENTINEL-1", "SENTINEL-2", "INVALID"}

\* the attributes the endpoint lists: Name and ValueType, either possibly
\* missing ("")
ServerAttributes ==
    [Name : {"productType", "datatakeID", ""}, ValueType : {"Integer", ""}]

\* what the Attributes endpoint may answer
Answers ==
    {Answer("200", a) : a \in SeqsUpTo(ServerAttributes, MaxServerAttributes)}
    \cup {Answer(st, <<>>) : st \in {"404", "500", "error"}}

Descriptor(type, title) == [type |-> type, title |-> title]

\* the date fields of _DATE_FIELD_SPECS and _BUILTIN_PARAMS
BuiltinTerms ==
    [n \in DOMAIN DATE_FIELD_SPECS \cup {"name", "geometry"} |-> Descriptor("", "builtin")]

\* search_terms[name] = entry
Put(mapping, name, entry) ==
    [n \in DOMAIN mapping \cup {name} |-> IF n = name THEN entry ELSE mapping[n]]

\* the names of the model in the order sorted() puts them
NameOrder ==
    <<"cloudCover", "contentDateEnd", "contentDateStart", "datatakeID", "geometry",
      "name", "orbitNumber", "processingDate", "productType", "publicationDate",
      "sliceProductFlag">>

\* sorted(search_terms.items()), the keys
SortedKeys(mapping) == SelectSeq(NameOrder, LAMBDA n : n \in DOMAIN mapping)

\* a registry taken whole, whatever the collection
SupportsAny(attr_name, coll) == TRUE

\* if collection in attr_info.get("Collections", [])
Supports(attr_name, coll) == coll \in ATTRIBUTES[attr_name].Collections

InitDescribe ==
    /\ collection \in DescribedCollections
    /\ endpoint \in Answers
    /\ dpc = "call"
    /\ di = 1
    /\ terms = <<>>
    /\ described = NoDescription
    /\ Constructed
    /\ NotApplying
    /\ chain = <<1>>
    /\ sends_count = TRUE
    /\ declared = 1
    /\ total_results = UnknownTotal
    /\ features = <<>>
    /\ top = MAX_BATCH_SIZE
    /\ next_url = build_query_url(top, DefaultSkip, TRUE, FALSE)
    /\ pc = [c \in Callers |-> "idle"]
    /\ op = [c \in Callers |-> NoOp]
    /\ attempts = [c \in Callers |-> 0]
    /\ req = [c \in Callers |-> None]
    /\ saw = [c \in Callers |-> {}]
    /\ io = [c \in Callers |-> FALSE]
    /\ pre = [c \in Callers |-> NoSnapshot]
    /\ fpre = [c \in Callers |-> NoSnapshot]
    /\ ret = [c \in Callers |-> NoRet]
    /\ it_index = [k \in Iters |-> 0]
    /\ yielded = [k \in Iters |-> <<>>]
    /\ stopped = [k \in Iters |-> FALSE]
    /\ fetched = <<>>
    /\ last_fetch = "none"
    /\ first_len = <<>>

not_describing == <<cursor, server, locals, iters, history, construction,
                   application>>

\* describe_collection up to the call of _fetch_collection_attributes
DescribeCollection ==
    /\ dpc = "call"
    /\ terms' = BuiltinTerms
    /\ dpc' = "fetch"
    /\ UNCHANGED <<collection, endpoint, di, described, not_describing>>

\* _fetch_collection_attributes returns response.json()
FetchAttributes200 ==
    /\ dpc = "fetch"
    /\ endpoint.status = "200"
    /\ dpc' = "attributes"
    /\ di' = 1
    /\ UNCHANGED <<collection, endpoint, terms, described, not_describing>>

\* a ValueError leaves _fetch_collection_attributes, and describe_collection
\* catches it: except ValueError
Caught(message) ==
    /\ described' = [described EXCEPT !.error = ValueError(message, <<collection>>)]
    /\ dpc' = "fallback"
    /\ UNCHANGED <<collection, endpoint, di, terms, not_describing>>

\* status 404: raise ValueError("Collection ... not found")
FetchAttributes404 ==
    /\ dpc = "fetch"
    /\ endpoint.status = "404"
    /\ Caught("Collection not found")

\* another status: raise ValueError("Failed to fetch attributes ...")
FetchAttributesNon200 ==
    /\ dpc = "fetch"
    /\ endpoint.status \notin {"200", "404", "error"}
    /\ Caught("Failed to fetch attributes")

\* session.get raises: raise ValueError("Error fetching attributes ...")
FetchAttributesError ==
    /\ dpc = "fetch"
    /\ endpoint.status = "error"
    /\ Caught("Error fetching attributes")

\* one attribute of the answer
ServerAttribute ==
    /\ dpc = "attributes"
    /\ di <= Len(endpoint.attributes)
    /\ LET attr == endpoint.attributes[di]
           name == attr.Name
           value_type == IF attr.ValueType = "" THEN "String" ELSE attr.ValueType
           title == IF name \in DOMAIN ATTRIBUTES THEN ATTRIBUTES[name].Title ELSE "absent"
       IN terms' = IF name = "" THEN terms ELSE Put(terms, name, Descriptor(value_type, title))
    /\ di' = di + 1
    /\ UNCHANGED <<collection, endpoint, dpc, described, not_describing>>

RECURSIVE PutAll(_, _)
PutAll(mapping, names) ==
    IF names = {} THEN mapping
    ELSE LET n == CHOOSE x \in names : TRUE
         IN PutAll(Put(mapping, n, Descriptor(ATTRIBUTES[n].Type, ATTRIBUTES[n].Title)),
                   names \ {n})

\* the except branch: the entries of ATTRIBUTES that list the collection
Fallback ==
    /\ dpc = "fallback"
    /\ terms' = PutAll(terms, {n \in DOMAIN ATTRIBUTES : Supports(n, collection)})
    /\ dpc' = "return"
    /\ UNCHANGED <<collection, endpoint, di, described, not_describing>>

\* return dict(sorted(search_terms.items()))
DescribeReturn ==
    /\ \/ dpc = "attributes" /\ di > Len(endpoint.attributes)
       \/ dpc = "return"
    /\ described' = [described EXCEPT !.status = "returned", !.keys = SortedKeys(terms)]
    /\ dpc' = "returned"
    /\ UNCHANGED <<collection, endpoint, di, terms, not_describing>>

NextDescribe ==
    \/ DescribeCollection
    \/ FetchAttributes200
    \/ FetchAttributes404
    \/ FetchAttributesNon200
    \/ FetchAttributesError
    \/ ServerAttribute
    \/ Fallback
    \/ DescribeReturn

SpecDescribe == InitDescribe /\ [][NextDescribe]_vars

\* -------------------------------------------- functions called on their own
\* the longest string _parse_interval is called with
MaxValueLen == 6

\* the characters of those strings: the brackets, the comma and the blank;
\* _parse_interval tells no other character from a bracket that is neither
\* first nor last, so the brackets stand for the characters of the values too
IntervalChars == {"[", "(", "]", ")", ",", " "}

\* no cursor is used, none is constructed and no collection is described
NoCursorInUse ==
    /\ Constructed
    /\ NotDescribing
    /\ chain = <<1>>
    /\ sends_count = TRUE
    /\ declared = 1
    /\ total_results = UnknownTotal
    /\ features = <<>>
    /\ top = MAX_BATCH_SIZE
    /\ next_url = build_query_url(top, DefaultSkip, TRUE, FALSE)
    /\ pc = [c \in Callers |-> "idle"]
    /\ op = [c \in Callers |-> NoOp]
    /\ attempts = [c \in Callers |-> 0]
    /\ req = [c \in Callers |-> None]
    /\ saw = [c \in Callers |-> {}]
    /\ io = [c \in Callers |-> FALSE]
    /\ pre = [c \in Callers |-> NoSnapshot]
    /\ fpre = [c \in Callers |-> NoSnapshot]
    /\ ret = [c \in Callers |-> NoRet]
    /\ it_index = [k \in Iters |-> 0]
    /\ yielded = [k \in Iters |-> <<>>]
    /\ stopped = [k \in Iters |-> FALSE]
    /\ fetched = <<>>
    /\ last_fetch = "none"
    /\ first_len = <<>>

not_applying ==
    <<cursor, server, locals, iters, history, construction, description>>

\* _parse_interval(value), for every string value of the bound
InitInterval ==
    /\ called = "_parse_interval"
    /\ argument \in SeqsUpTo(IntervalChars, MaxValueLen)
    /\ result = <<>>
    /\ NoCursorInUse

ParseInterval ==
    /\ called = "_parse_interval"
    /\ result = <<>>
    /\ result' = <<parse_interval(argument)>>
    /\ UNCHANGED <<called, argument, not_applying>>

NextInterval == ParseInterval

SpecInterval == InitInterval /\ [][NextInterval]_vars

\* the most query parameters of a URL _strip_odata_count is called with
MaxParams == 3

\* the parameters of those URLs, and what comes before each
UrlParams == {"$count=true", "%24count=true", "$filter=x", "$top=10"}
UrlSeps == {"?", "&"}

\* the URLs: a path, then up to n parameters, each behind a "?" or a "&"
RECURSIVE Urls(_)
Urls(n) ==
    IF n = 0 THEN {<<"Products">>}
    ELSE LET shorter == Urls(n - 1)
         IN shorter \cup
            {u \o <<sep, p>> :
                u \in {t \in shorter : Len(t) = 2 * n - 1},
                sep \in UrlSeps, p \in UrlParams}

\* _strip_odata_count(url), for every URL of the bound
InitStrip ==
    /\ called = "_strip_odata_count"
    /\ argument \in Urls(MaxParams)
    /\ result = <<>>
    /\ NoCursorInUse

StripOdataCount ==
    /\ called = "_strip_odata_count"
    /\ result = <<>>
    /\ result' = <<strip_odata_count(argument)>>
    /\ UNCHANGED <<called, argument, not_applying>>

NextStrip == StripOdataCount

SpecStrip == InitStrip /\ [][NextStrip]_vars

\* ------------------------------------------------------------------ claims
\* every record of the chain, in page order, as the cursor hands it out
AllRecords(ch) ==
    [j \in 1..Total(ch) |-> [ServerRecord(j) EXCEPT !.Collection = Collection]]

\* no fetch has run out of attempts: every page asked for was answered 200
NeverGaveUp == last_fetch # "gave_up"

\* the first page declares the number of records of the whole chain
DeclaresTotal == sends_count /\ declared = Total(chain)

\* C1: against a server that answers every page, serves a finite chain and
\* declares on the first page the number N of records of the chain, __len__
\* returns N and an iteration that has ended has yielded the N records in
\* page order (for a cursor that follows continuation links, top > 0).
C1_LengthAndIteration ==
    (DeclaresTotal /\ NeverGaveUp /\ top > 0) =>
        /\ \A c \in Callers : ret[c].kind = "len" => ret[c].len = Total(chain)
        /\ \A k \in Iters : stopped[k] => yielded[k] = AllRecords(chain)

\* C1, for the chains that hold at least one record
C1_HoldsForPositiveCount == Total(chain) > 0 => C1_LengthAndIteration

\* C1, reached: four records over two pages, counted and iterated to the end
C1_Reached ==
    /\ DeclaresTotal /\ NeverGaveUp /\ top > 0
    /\ Total(chain) = 4 /\ Len(chain) = 2
    /\ stopped[1] /\ Len(yielded[1]) = 4
    /\ first_len = <<4>>

\* C2: every iteration starts at position 0 and yields the cached records in
\* order, so any two iterations over the cursor, interleaved or one after the
\* other, yield the same sequence; an iteration that has ended has yielded all
\* of features; and __len__ returns the value it returned the first time.
C2_Restartable ==
    /\ \A k \in Iters :
         /\ it_index[k] = Len(yielded[k])
         /\ IsPrefix(yielded[k], features)
         /\ stopped[k] => yielded[k] = features
    /\ \A k1, k2 \in Iters :
         \A j \in 1..Len(yielded[k1]) :
             j <= Len(yielded[k2]) => yielded[k1][j] = yielded[k2][j]
    /\ \A c \in Callers : ret[c].kind = "len" => first_len = <<ret[c].len>>

\* C2, reached: two iterations over two pages have both ended, after a length
C2_Reached ==
    /\ stopped[1] /\ stopped[2]
    /\ Len(yielded[1]) >= 2 /\ yielded[1] = yielded[2]
    /\ Len(fetched) = 2
    /\ first_len # <<>>

\* C4: features is append-only: every step leaves the features it found as a
\* prefix of the features it leaves.
C4_AppendOnly == [][IsPrefix(features, features')]_vars

\* C4, reached: features has grown by two non-empty pages
C4_Reached ==
    /\ Len(fetched) = 2
    /\ chain[1] > 0 /\ chain[2] > 0
    /\ Len(features) = chain[1] + chain[2]

Max(a, b) == IF a >= b THEN a ELSE b

\* every page of the chain holds chain[1] records
FullPages == \A k \in 1..Len(chain) : chain[k] = chain[1]

\* the step in which __getitem__ returns to caller c, or raises
GetReturns(c) == pc[c] = "getitem" /\ pc'[c] = "idle"

\* caller c is inside the retry loop of __fetch_features
InRetryLoop(c) == pc[c] \in {"fetch", "await", "sleep"}

\* C3: when get(i), i >= 0, returns an item, the cursor caches the larger of
\* what it cached at the call and p * (i \div p + 1) records, p the size of the
\* server's (full) pages; a get of a cached index has issued no GET.
C3_RandomAccess ==
    [][\A c \in Callers :
         (/\ GetReturns(c)
          /\ op[c].kind = "get"
          /\ op[c].index >= 0
          /\ ret'[c].status = "ok") =>
             /\ FullPages =>
                  Len(features') =
                      Max(Len(pre[c].features),
                          chain[1] * ((op[c].index \div chain[1]) + 1))
             /\ op[c].index < Len(pre[c].features) =>
                  ~ret'[c].io /\ features' = pre[c].features /\ fetched' = fetched
      ]_vars

\* C3, reached: get(3) on a fresh cursor over pages of two records has
\* fetched two pages and is about to return
C3_Reached ==
    /\ pc[1] = "getitem" /\ op[1].kind = "get" /\ op[1].index = 3
    /\ chain = <<2, 2>>
    /\ pre[1].features = <<>>
    /\ Len(features) = 4

\* C5: from a state with next_url None on, next_url stays None, features,
\* total_results and the pages fetched stay what they are, and no caller is in
\* or enters the retry loop, where the GETs are issued.
C5_ExhaustionIsPermanent ==
    [][next_url = None =>
         /\ next_url' = None
         /\ features' = features
         /\ total_results' = total_results
         /\ fetched' = fetched
         /\ \A c \in Callers : ~InRetryLoop(c) /\ ~InRetryLoop(c)'
      ]_vars

\* C5, reached: a page ran out of attempts after one was cached, and a later
\* get raised without any GET
C5_Reached ==
    /\ last_fetch = "gave_up" /\ next_url = None
    /\ Len(features) >= 1
    /\ ret[1].kind = "get" /\ ret[1].status = "IndexError" /\ ~ret[1].io

\* C6: while a fetch retries, features and total_results are what they were
\* when it began; when its MaxAttempts attempts have all failed it returns to
\* the frame that called it (no exception), with next_url None and features
\* and total_results still what they were.
C6_SilentTruncation ==
    /\ [](\A c \in Callers :
            InRetryLoop(c) =>
                /\ features = fpre[c].features
                /\ total_results = fpre[c].total_results)
    /\ [][\A c \in Callers :
            (pc[c] = "fetch" /\ attempts[c] >= MaxAttempts /\ pc'[c] # "fetch") =>
                /\ next_url' = None
                /\ features' = fpre[c].features
                /\ total_results' = fpre[c].total_results
                /\ pc'[c] \in {"idle", "getitem"}
                /\ pc'[c] = "idle" => ret'[c] = LenRet(fpre[c].total_results, TRUE)
         ]_vars

\* C6, reached: after a page was cached, a fetch met both refused statuses
\* and exceptions and gave up
C6_Reached ==
    /\ last_fetch = "gave_up"
    /\ saw[1] = {"status", "exception"}
    /\ next_url = None
    /\ Len(features) >= 1

\* the pages 1, 2, ... in order
InOrder(f) == \A j \in 1..Len(f) : f[j] = j

\* C7: get(i), i >= 0, never returns an item when i is at or beyond the
\* records of the chain; when it raises, the cursor is exhausted, the pages
\* fetched are the first pages of the chain in order, all of them when no
\* page ran out of attempts and links are followed, and the error is
\* IndexError for a caller and StopIteration for an iteration.
C7_OutOfRange ==
    [][\A c \in Callers :
         (GetReturns(c) /\ op[c].index >= 0) =>
             /\ op[c].index >= Total(chain) => ret'[c].status # "ok"
             /\ ret'[c].status # "ok" =>
                  /\ next_url' = None
                  /\ op[c].index >= Len(features')
                  /\ InOrder(fetched')
                  /\ (last_fetch' # "gave_up" /\ top > 0) =>
                         fetched' = [j \in 1..Len(chain) |-> j]
                  /\ ret'[c].status =
                         IF op[c].kind = "next" THEN "StopIteration" ELSE "IndexError"
      ]_vars

\* C7, reached: a get past the end fetched both pages and raised IndexError
C7_Reached ==
    /\ ret[1].kind = "get" /\ ret[1].status = "IndexError" /\ ret[1].io
    /\ fetched = <<1, 2>> /\ last_fetch = "ok"
    /\ next_url = None

\* C8 as stated, for the servers whose count is not 0: a call of __len__ is in
\* the retry loop only when no fetch has completed before.
C8_NoFetchAfterFirst ==
    \A c \in Callers :
        (pc[c] = "fetch" /\ op[c].kind = "len" /\ ~(sends_count /\ declared = 0)) =>
            last_fetch = "none"

\* C8, amended: a call of __len__ enters a fetch only with total_results
\* unknown; with total_results known it returns it in the same step, without
\* a GET, and leaves features, next_url and total_results as they are.
C8_LenIsLazy ==
    [][\A c \in Callers :
         Len_(c) =>
             /\ pc'[c] = "fetch" => total_results < 0
             /\ total_results >= 0 =>
                  /\ pc'[c] = "idle"
                  /\ ret'[c] = LenRet(total_results, FALSE)
                  /\ UNCHANGED <<features, next_url, total_results, fetched>>
      ]_vars

\* C8, reached: during an iteration, with a page left, __len__ returned the
\* known total without a GET
C8_Reached ==
    /\ ret[1].kind = "len" /\ ~ret[1].io /\ ret[1].len >= 1
    /\ total_results = ret[1].len
    /\ it_index[1] >= 1
    /\ next_url # None

\* C9: a 200 answer that carries a count c leaves total_results = c, for
\* every c >= 0; one that carries none leaves total_results as it was.
C9_CountIsStored ==
    [][\A c \in Callers :
         pc[c] = "fetch" =>
             \A response \in Responses(next_url) :
                 On200(c, next_url, response) =>
                     total_results' = IF response.has_count THEN response.count
                                      ELSE total_results
      ]_vars

C11_CollectionStamped ==
    \A j \in 1..Len(features) : features[j].Collection = Collection

\* C11, reached: features holds a record the server sent with a Collection
\* of its own, and one it sent with none
C11_Reached ==
    /\ Len(features) >= 2
    /\ ServerRecord(features[1].Id).Collection = "server-value"
    /\ ServerRecord(features[2].Id).Collection = "absent"
    /\ C11_CollectionStamped

\* no GET has been issued, and no caller is in a fetch
NoGetIssued ==
    /\ last_fetch = "none" /\ fetched = <<>>
    /\ \A c \in Callers : pc[c] = "idle" /\ attempts[c] = 0

\* C12: the page size is min(requested top, 1000), 1000 when no top is given;
\* it never exceeds 1000; the warning is logged exactly when the request is
\* above 1000; the URL of the first page carries it in $top.
C12_PageSize ==
    /\ top <= MAX_BATCH_SIZE
    /\ qpc \in {"filter", "cursor"} =>
         LET requested == IF HasKey(search_terms, <<"top">>)
                          THEN to_int(Get(search_terms, <<"top">>, <<>>))
                          ELSE 1000
         IN /\ top = IF requested <= 1000 THEN requested ELSE 1000
            /\ (TopWarning \in logged) <=> (requested > 1000)
    /\ (qpc = "cursor" /\ last_fetch = "none" /\ pc[1] = "idle") =>
         TopParam(top) \in Range(next_url)

\* C12, reached: top = 1001 was asked for, and the cursor asks for 1000
C12_Reached ==
    /\ qpc = "cursor"
    /\ Get(search_terms, <<"top">>, <<>>) = <<"1", "0", "0", "1">>
    /\ top = 1000
    /\ logged = {TopWarning}
    /\ "$top=1000" \in Range(next_url)

DeprecatedKeys ==
    {<<"box">>, <<"startDate">>, <<"completionDate">>, <<"publishedAfter">>,
     <<"publishedBefore">>, <<"maxRecords">>}

\* the parameter the message of a deprecated key tells to use
Replacement(key) ==
    CASE key = <<"box">> -> "geometry"
      [] key = <<"startDate">> -> "contentDateStartGt"
      [] key = <<"completionDate">> -> "contentDateEndLt"
      [] key = <<"publishedAfter">> -> "publicationDateGt"
      [] key = <<"publishedBefore">> -> "publicationDateLt"
      [] key = <<"maxRecords">> -> "top"

\* C14 as stated: a build that fails for a mapping with a deprecated key
\* fails with the message of a deprecated key of the mapping.
C14_AlwaysNamesReplacement ==
    (qpc = "raised" /\ error.message # "invalid literal for int()"
        /\ \E j \in 1..Len(search_terms) : search_terms[j].key \in DeprecatedKeys) =>
        \E j \in 1..Len(search_terms) :
            /\ search_terms[j].key \in DeprecatedKeys
            /\ error = ValueError("deprecated", <<Replacement(search_terms[j].key)>>)

\* C14, amended: no filter is returned for a mapping with a deprecated key;
\* when the loop comes to a deprecated key (no key before it was rejected)
\* the build fails there, whatever the value, with the message that names
\* the replacement of that key.
C14_DeprecatedRejected ==
    /\ []((\E j \in 1..Len(search_terms) : search_terms[j].key \in DeprecatedKeys)
             => (qpc # "cursor" /\ next_url = None))
    /\ [][(AtKey /\ search_terms[qi].key \in DeprecatedKeys) =>
             /\ qpc' = "raised"
             /\ error' = ValueError("deprecated", <<Replacement(search_terms[qi].key)>>)
             /\ next_url' = None
         ]_vars

\* C14, reached: the build failed at maxRecords, the second key, after the
\* clause of the first key
C14_Reached ==
    /\ qpc = "raised" /\ qi = 2
    /\ search_terms[2].key = <<"maxRecords">>
    /\ Len(filters) = 2
    /\ error = ValueError("deprecated", <<"top">>)

\* key[..] with at most one operator suffix taken off its end
StripOneSuffix(key) ==
    IF Len(key) >= 2 /\ key[Len(key)] \in {"Eq", "Lt", "Le", "Gt", "Ge"}
    THEN SubSeq(key, 1, Len(key) - 1)
    ELSE key

\* the keys of _DATE_FILTERS
DateFilterKeys ==
    {<<n>> : n \in {"contentDateStart", "contentDateEnd", "publicationDate"}}
    \cup {<<n, x>> : n \in {"contentDateStart", "contentDateEnd", "publicationDate"},
                     x \in {"Eq", "Lt", "Le", "Gt", "Ge"}}

RegistryKeys ==
    {<<"cloudCover">>, <<"orbitNumber">>, <<"productType">>, <<"processingDate">>,
     <<"sliceProductFlag">>}

\* a key that is not reserved, not deprecated, no date filter, none of name,
\* nameEq, geometry, geometryEq, and whose base name is not in the registry
Unknown(key) ==
    /\ key \notin {<<"top">>, <<"skip">>}
    /\ key \notin DeprecatedKeys
    /\ key \notin DateFilterKeys
    /\ key \notin {<<"name">>, <<"name", "Eq">>, <<"geometry">>, <<"geometry", "Eq">>}
    /\ StripOneSuffix(key) \notin RegistryKeys

\* C16 as stated: a build that fails for a mapping with an unknown key fails
\* with 'parameter not supported'.
C16_AlwaysNotSupported ==
    (qpc = "raised" /\ error.message # "invalid literal for int()"
        /\ \E j \in 1..Len(search_terms) : Unknown(search_terms[j].key)) =>
        error.message = "parameter is not supported"

\* C16, amended: no filter is returned for a mapping with an unknown key; when
\* the loop comes to an unknown key (no key before it was rejected) the build
\* fails there with 'parameter not supported', naming the key.
C16_UnknownRejected ==
    /\ []((\E j \in 1..Len(search_terms) : Unknown(search_terms[j].key))
             => (qpc # "cursor" /\ next_url = None))
    /\ [][(AtKey /\ Unknown(search_terms[qi].key)) =>
             /\ qpc' = "raised"
             /\ error' = ValueError("parameter is not supported", search_terms[qi].key)
             /\ next_url' = None
         ]_vars

\* C16, reached: cloudCoverLtEq, with one suffix too many, was rejected after
\* the clause of the first key
C16_Reached ==
    /\ qpc = "raised" /\ qi = 2
    /\ search_terms[2].key = <<"cloudCover", "Lt", "Eq">>
    /\ Len(filters) = 2
    /\ error.message = "parameter is not supported"

\* the bare keys that take an interval: the date fields and the Integer,
\* Double and DateTimeOffset attributes
IntervalBases ==
    {"contentDateStart", "contentDateEnd", "publicationDate",
     "cloudCover", "orbitNumber", "processingDate"}

LowerOp(value) == IF Strip(value)[1] = "[" THEN "ge" ELSE "gt"
UpperOp(value) == IF Strip(value)[Len(Strip(value))] = "]" THEN "le" ELSE "lt"

SuffixOp(x) ==
    CASE x = "Eq" -> "eq" [] x = "Lt" -> "lt" [] x = "Le" -> "le"
      [] x = "Gt" -> "gt" [] x = "Ge" -> "ge"

\* C15: at a bare date or numeric key, a value that is no interval is
\* rejected, and an accepted value adds two clauses, with ge or gt for its
\* left bracket and le or lt for its right one; at such a key with a suffix,
\* an interval is rejected, and an accepted value adds one clause with the
\* operator of the suffix.
C15_IntervalSyntax ==
    [][(AtKey /\ search_terms[qi].key[1] \in IntervalBases) =>
         LET key == search_terms[qi].key
             value == search_terms[qi].value
             n == Len(filters)
         IN /\ Len(key) = 1 =>
                 /\ ~parse_interval(value).ok =>
                        /\ qpc' = "raised"
                        /\ error'.message = "requires interval syntax"
                 /\ qpc' # "raised" =>
                        /\ Len(filters') = n + 2 /\ IsPrefix(filters, filters')
                        /\ filters'[n + 1].op = LowerOp(value)
                        /\ filters'[n + 2].op = UpperOp(value)
            /\ (Len(key) = 2 /\ key[2] \in {"Eq", "Lt", "Le", "Gt", "Ge"}) =>
                 /\ parse_interval(value).ok =>
                        /\ qpc' = "raised"
                        /\ error'.message = "Interval syntax is not allowed"
                 /\ qpc' # "raised" =>
                        /\ Len(filters') = n + 1 /\ IsPrefix(filters, filters')
                        /\ filters'[n + 1].op = SuffixOp(key[2])
      ]_vars

\* C15, reached: orbitNumber = (1,2] gave the clauses gt 1 and le 2
C15_Reached ==
    /\ qpc = "cursor"
    /\ search_terms = <<Term(<<"orbitNumber">>, <<"(", "1", ",", "2", "]">>)>>
    /\ Len(filters) = 3
    /\ filters[2].op = "gt" /\ filters[2].value = <<"1">>
    /\ filters[3].op = "le" /\ filters[3].value = <<"2">>

\* C17: at a key of a String or Boolean attribute, a suffix Lt, Le, Gt or Ge
\* is rejected whatever the value; the bare key and the key with Eq add one
\* clause with eq (a Boolean value that is neither true nor false is
\* rejected for the value, not for the operator).
C17_EqualityOnly ==
    [][(AtKey /\ search_terms[qi].key[1] \in {"productType", "sliceProductFlag"}
              /\ Len(search_terms[qi].key) <= 2) =>
         LET key == search_terms[qi].key
             value == search_terms[qi].value
             n == Len(filters)
         IN /\ (Len(key) = 2 /\ key[2] \in {"Lt", "Le", "Gt", "Ge"}) =>
                 /\ qpc' = "raised"
                 /\ error' = ValueError("Comparison operators are not supported", <<key[1]>>)
            /\ (Len(key) = 1 \/ key[Len(key)] = "Eq") =>
                 \/ /\ qpc' = "filter"
                    /\ Len(filters') = n + 1 /\ IsPrefix(filters, filters')
                    /\ filters'[n + 1].op = "eq"
                    /\ filters'[n + 1].field = key[1]
                 \/ /\ key[1] = "sliceProductFlag"
                    /\ Lower(value) \notin {<<"t", "r", "u", "e">>, <<"f", "a", "l", "s", "e">>}
                    /\ qpc' = "raised"
                    /\ error'.message = "Invalid boolean value"
      ]_vars

\* C17, reached: sliceProductFlagGe = True was rejected for its operator
C17_Reached ==
    /\ qpc = "raised"
    /\ search_terms = <<Term(<<"sliceProductFlag", "Ge">>, <<"T", "r", "u", "e">>)>>
    /\ error.message = "Comparison operators are not supported"

\* C20: the mapping {bogusParam: ...} is rejected at construction, and is
\* accepted when options holds validate_search_terms = False.
C20_ValidationCanBeTurnedOff ==
    (Len(search_terms) = 1 /\ search_terms[1].key = <<"bogusParam">>) =>
        IF options.validate_search_terms THEN qpc # "cursor" ELSE qpc # "raised"

\* C18: when the endpoint answers 404, describe_collection ends in a
\* 'collection not found' error and returns no mapping.
C18_NotFoundRaises ==
    (endpoint.status = "404" /\ dpc \notin {"call", "fetch", "fallback", "return"}) =>
        /\ dpc = "raised"
        /\ described.status # "returned" /\ described.keys = <<>>
        /\ described.error.message = "Collection not found"

\* the position of a name in the sorted order
Rank(n) == CHOOSE i \in 1..Len(NameOrder) : NameOrder[i] = n

\* C19: when the endpoint answers a status other than 200 and 404, or the
\* request fails, describe_collection raises nothing and returns, sorted by
\* key, the builtin terms and the registry entries that list the collection.
C19_Fallback ==
    endpoint.status \in {"500", "error"} =>
        /\ dpc # "raised" /\ described.status # "raised"
        /\ dpc = "returned" =>
             /\ described.status = "returned"
             /\ Range(described.keys) =
                    {"contentDateStart", "contentDateEnd", "publicationDate",
                     "name", "geometry"}
                    \cup {n \in DOMAIN ATTRIBUTES : collection \in ATTRIBUTES[n].Collections}
             /\ \A i, j \in 1..Len(described.keys) :
                    i < j => Rank(described.keys[i]) < Rank(described.keys[j])

\* C19, reached: the request failed, and the description of SENTINEL-1 has
\* sliceProductFlag from the registry, and not cloudCover
C19_Reached ==
    /\ endpoint.status = "error" /\ collection = "SENTINEL-1"
    /\ dpc = "returned" /\ described.status = "returned"
    /\ "sliceProductFlag" \in Range(described.keys)
    /\ "cloudCover" \notin Range(described.keys)
    /\ Len(described.keys) = 9

\* caller c issues a GET in this step
IssuesGet(c) == pc[c] # "await" /\ pc'[c] = "await"

\* C21: attempts, which a fetch starts at 0, counts its GETs: each GET adds
\* one to it, whatever answered the GET before (a refused status or an
\* exception) left it as it was, and it never exceeds MaxAttempts; the step
\* that receives a 200 leaves the retry loop, so that fetch issues no GET
\* after it.
C21_AttemptBudget ==
    /\ [](\A c \in Callers : attempts[c] \in 0..MaxAttempts)
    /\ [][\A c \in Callers :
            /\ IssuesGet(c) =>
                 /\ pc[c] = "fetch"
                 /\ attempts[c] < MaxAttempts
                 /\ attempts'[c] = attempts[c] + 1
                 /\ req'[c] = next_url
            /\ (pc[c] # "fetch" /\ pc'[c] = "fetch") => attempts'[c] = attempts[c] \/ attempts'[c] = 0
            /\ (pc[c] = "await" /\ InRetryLoop(c)') =>
                 /\ attempts'[c] = attempts[c]
                 /\ req'[c] = req[c]
                 /\ fetched' = fetched
            /\ (pc[c] = "await" /\ fetched' # fetched) =>
                 /\ ~InRetryLoop(c)'
                 /\ attempts'[c] = 0
         ]_vars

\* C21, reached: the tenth GET of one fetch is out, after refused statuses
\* and exceptions
C21_Reached ==
    /\ pc[1] = "await"
    /\ attempts[1] = MaxAttempts
    /\ saw[1] = {"status", "exception"}

\* C22: a sleep begins only at a refused status, and when it ends the retry
\* loop has an attempt left, whose GET asks for the same page; an exception
\* takes the loop back to its test at once, without a sleep.
C22_SleepThenRetry ==
    [][\A c \in Callers :
         /\ (pc[c] # "sleep" /\ pc'[c] = "sleep") =>
              pc[c] = "await" /\ "status" \in saw'[c]
         /\ (pc[c] = "sleep" /\ pc'[c] # "sleep") =>
              /\ pc'[c] = "fetch"
              /\ attempts[c] < MaxAttempts
              /\ next_url' = req[c]
         /\ (pc[c] = "await" /\ pc'[c] = "fetch") =>
              "exception" \in saw'[c]
      ]_vars

\* C22, the part the retry loop keeps: all of the above but the attempt left
C22_SleepOnlyAfterStatus ==
    [][\A c \in Callers :
         /\ (pc[c] # "sleep" /\ pc'[c] = "sleep") =>
              pc[c] = "await" /\ "status" \in saw'[c]
         /\ (pc[c] = "sleep" /\ pc'[c] # "sleep") =>
              /\ pc'[c] = "fetch"
              /\ next_url' = req[c]
         /\ (pc[c] = "await" /\ pc'[c] = "fetch") =>
              "exception" \in saw'[c]
      ]_vars

\* C22, reached: the tenth attempt was refused and the fetch sleeps
C22_Reached ==
    /\ pc[1] = "sleep"
    /\ attempts[1] = MaxAttempts

\* the step is a successful page fetch
PageFetched == fetched' # fetched

\* the continuation link to the page after page k, without the count option
PlainLink(k) == Join(<<"$filter", TopParam(top), "$orderby", SkipParam(k)>>)

\* C23, as claimed: after the successful fetch of page k, next_url is the
\* link to page k + 1 without its count option when the response carried a
\* link (page k is not the last) and top is not 0, and None otherwise.
C23_NextUrlWhenTopNonzero ==
    [][PageFetched =>
         LET k == fetched'[Len(fetched')]
         IN next_url' = IF k < Len(chain) /\ top # 0 THEN PlainLink(k) ELSE None
      ]_vars

\* C23, amended: the same with top > 0 in place of top # 0; a cursor built
\* with a negative top follows no link.
C23_NextUrlWhenTopPositive ==
    [][PageFetched =>
         LET k == fetched'[Len(fetched')]
         IN /\ next_url' = IF k < Len(chain) /\ top > 0 THEN PlainLink(k) ELSE None
            /\ \A i \in 1..Len(next_url') : ~IsCountParam(next_url'[i])
      ]_vars

\* C23, reached: the first page of two was fetched with a positive top and
\* next_url is the link to the second
C23_Reached ==
    /\ fetched = <<1>>
    /\ Len(chain) = 2
    /\ top > 0
    /\ next_url = PlainLink(1)

\* C24: under one caller, the pages fetched successfully are pages 1, 2, ...
\* of the chain, each once and in link order; features is their records in
\* that order, stamped; and a next_url that is not None asks for the page
\* after the last one fetched, never for one already cached.
C24_FeaturesArePagesInOrder ==
    /\ InOrder(fetched)
    /\ Len(fetched) <= Len(chain)
    /\ features = SubSeq(AllRecords(chain), 1,
                         Sum([k \in 1..Len(fetched) |-> chain[fetched[k]]]))
    /\ next_url # None => PageOf(next_url) = Len(fetched) + 1

\* C24, reached: a length, a get and an iteration step have run, and two
\* pages with records are cached
C24_Reached ==
    /\ fetched = <<1, 2>>
    /\ chain[1] > 0 /\ chain[2] > 0
    /\ first_len # <<>>
    /\ ret[1].kind = "get" /\ ret[1].status = "ok"
    /\ Len(yielded[1]) >= 1

\* C29: a get of a negative index is never in the retry loop; when it
\* returns, next_url, features, total_results and the pages fetched are what
\* they were at the call, no GET was issued, and it returned an item exactly
\* when the index counts back into the records cached at the call, so on a
\* cursor with nothing cached it raises IndexError.
C29_NegativeIndexNeverFetches ==
    /\ [](\A c \in Callers :
            (op[c].kind = "get" /\ op[c].index < 0) => ~InRetryLoop(c))
    /\ [][\A c \in Callers :
            (GetReturns(c) /\ op[c].kind = "get" /\ op[c].index < 0) =>
                /\ next_url' = pre[c].next_url
                /\ features' = pre[c].features
                /\ total_results' = pre[c].total_results
                /\ fetched' = fetched
                /\ ~ret'[c].io
                /\ ret'[c].status =
                       IF 0 - Len(pre[c].features) <= op[c].index
                       THEN "ok" ELSE "IndexError"
                /\ pre[c].features = <<>> => ret'[c].status = "IndexError"
         ]_vars

\* C29, reached: get(-1) raised on a fresh cursor whose server holds records,
\* and the cursor is still fresh
C29_Reached ==
    /\ ret[1].kind = "get" /\ ret[1].status = "IndexError" /\ ~ret[1].io
    /\ fetched = <<>> /\ features = <<>>
    /\ total_results = UnknownTotal
    /\ next_url # None
    /\ last_fetch = "none"
    /\ Total(chain) > 0

\* C30: whatever __len__ has returned to a caller is a non-negative integer,
\* never the UnknownTotal that total_results starts with.
C30_LengthIsNonNegative ==
    \A c \in Callers : ret[c].kind = "len" => ret[c].len >= 0

\* C30, for the one kind of first page that keeps it: once a first page has
\* declared a count of one or more, __len__ returns that count.
C30_HoldsAfterPositiveCount ==
    \A c \in Callers :
        (/\ ret[c].kind = "len"
         /\ fetched # <<>> /\ sends_count /\ declared > 0) =>
            ret[c].len = declared

\* the positions of s that hold something other than a blank, between
\* positions lo and hi, both left out
Inked(s, lo, hi) == {k \in (lo + 1)..(hi - 1) : s[k] # " "}

\* s is an interval: blanks, an opening bracket at lo, a body with exactly one
\* comma, at ci, and something other than blanks on each side of it, a
\* closing bracket at hi, blanks
IsIntervalAt(s, lo, ci, hi) ==
    /\ lo < ci /\ ci < hi
    /\ s[lo] \in {"[", "("} /\ s[hi] \in {"]", ")"}
    /\ \A k \in 1..Len(s) : (k < lo \/ k > hi) => s[k] = " "
    /\ \A k \in (lo + 1)..(hi - 1) : s[k] = "," <=> k = ci
    /\ Inked(s, lo, ci) # {} /\ Inked(s, ci, hi) # {}

\* the token between lo and hi without the blanks around it
Trimmed(s, lo, hi) ==
    LET ink == Inked(s, lo, hi)
    IN SubSeq(s, Min(ink), CHOOSE k \in ink : \A j \in ink : j <= k)

\* C27: _parse_interval(value) returns exactly what the grammar gives: for an
\* interval the two trimmed tokens, ge for "[" and gt for "(", le for "]" and
\* lt for ")"; for every other string, that it is no interval.
C27_IntervalGrammar ==
    result # <<>> =>
        LET s == argument
            r == result[1]
            P == 1..Len(s)
        IN IF \E lo, ci, hi \in P : IsIntervalAt(s, lo, ci, hi)
           THEN \A lo, ci, hi \in P :
                    IsIntervalAt(s, lo, ci, hi) =>
                        /\ r.ok
                        /\ r.start_value = Trimmed(s, lo, ci)
                        /\ r.end_value = Trimmed(s, ci, hi)
                        /\ r.start_op = (IF s[lo] = "[" THEN "ge" ELSE "gt")
                        /\ r.end_op = (IF s[hi] = "]" THEN "le" ELSE "lt")
           ELSE r = NoInterval

\* C27, reached: "( (,)]", a half-open interval of the values "(" and ")"
\* with a blank before the first, was parsed
C27_Reached ==
    /\ called = "_parse_interval"
    /\ argument = <<"(", " ", "(", ",", ")", "]">>
    /\ result = <<[ok |-> TRUE, start_value |-> <<"(">>, end_value |-> <<")">>,
                   start_op |-> "gt", end_op |-> "le"]>>

\* the parameters of a URL, in order: the path is its first token, and each
\* parameter comes behind its "?" or "&"
ParamsOf(url) == [j \in 1..((Len(url) - 1) \div 2) |-> url[2 * j + 1]]

\* the URL without its j-th parameter and what comes before it; when that
\* parameter was the first, what follows is a "?" if it was an "&"
WithoutParam(url, j) ==
    LET rest == SubSeq(url, 2 * j + 2, Len(url))
        kept == SubSeq(url, 1, 2 * j - 1)
    IN IF j = 1 /\ rest # <<>> /\ rest[1] = "&"
       THEN kept \o <<"?">> \o Tail(rest)
       ELSE kept \o rest

\* C28: _strip_odata_count(url) is url when no parameter of url is the count
\* option, and otherwise url without the first parameter that is, the other
\* parameters kept in order and an "&" after a removed first parameter turned
\* into "?".
C28_StripsOneCountParam ==
    result # <<>> =>
        LET url == argument
            at == {j \in 1..Len(ParamsOf(url)) : IsCountParam(ParamsOf(url)[j])}
        IN result[1] = IF at = {} THEN url ELSE WithoutParam(url, Min(at))

\* the one "?" of the URL is before its first parameter
WellFormed(url) == \A i \in 1..Len(url) : url[i] = "?" <=> i = 2

\* C28, for the URLs that the catalogue sends: the same for every URL whose
\* query starts at its only "?"
C28_HoldsWhenWellFormed ==
    (result # <<>> /\ WellFormed(argument)) =>
        LET url == argument
            at == {j \in 1..Len(ParamsOf(url)) : IsCountParam(ParamsOf(url)[j])}
        IN result[1] = IF at = {} THEN url ELSE WithoutParam(url, Min(at))

\* the step in which caller c takes a 200 answer
Receives200(c) == pc[c] = "await" /\ pc'[c] # "await" /\ fetched' # fetched

\* some page was answered 200 more than once
FetchedTwice ==
    \E i, j \in 1..Len(fetched) : i < j /\ fetched[i] = fetched[j]

\* the records of the distinct pages fetched, each once and in page order
DistinctPages ==
    [j \in 1..Len(features) |->
        IF j <= Total(chain) THEN AllRecords(chain)[j] ELSE [Id |-> 0, Collection |-> ""]]

\* C26: nothing orders two callers of one cursor: a caller may send a GET
\* for the next_url another caller has already asked for, and the answer it
\* takes is appended to features whatever features holds by then; once a
\* page with records was answered twice, features is no longer the records
\* of distinct pages in page order.
C26_UnsynchronizedAppend ==
    /\ [][\A c \in Callers :
            /\ (pc[c] = "fetch" /\ pc'[c] = "await") => req'[c] = next_url
            /\ Receives200(c) =>
                 /\ fetched' = Append(fetched, PageOf(req[c]))
                 /\ features' =
                        features \o Stamp(PageRecords(chain, PageOf(req[c])))
         ]_vars
    /\ []((FetchedTwice /\ chain[1] > 0) =>
             /\ features # DistinctPages
             /\ \E i, j \in 1..Len(features) : i < j /\ features[i] = features[j])

\* C26, reached: a __len__ and a __getitem__ were in the retry loop
\* together, both asked for the first page, and features holds its records
\* twice
C26_Reached ==
    /\ chain[1] > 0
    /\ fetched = <<1, 1>>
    /\ features = Stamp(PageRecords(chain, 1)) \o Stamp(PageRecords(chain, 1))
    /\ ret[1].kind = "len" /\ ret[1].io
    /\ ret[2].kind = "get" /\ ret[2].io

\* C25, as claimed: whatever the server sends, every call of __getitem__ and
\* of __next__ returns or raises, and the iteration reaches its
\* StopIteration.
C25_AlwaysTerminates ==
    /\ \A c \in SingleCaller : pc[c] # "idle" ~> pc[c] = "idle"
    /\ <>stopped[1]

\* an answer has carried a link that leads back, and no page came after it
Looped == last_fetch = "looped"

\* C25, amended: every call returns or raises and the iteration reaches its
\* StopIteration, unless an answer carries a link that leads back; the
\* successful fetches of pages are never more than the chain has pages.
C25_TerminatesOnFiniteChain ==
    /\ \A c \in SingleCaller : pc[c] # "idle" ~> (pc[c] = "idle" \/ Looped)
    /\ <>(stopped[1] \/ Looped)
    /\ [](Len(fetched) <= Len(chain))

\* C25, reached: the iteration has raised StopIteration after the two pages
\* of the chain and all its records
C25_Reached ==
    /\ stopped[1]
    /\ fetched = <<1, 2>>
    /\ Len(yielded[1]) = Total(chain) /\ Total(chain) >= 2
    /\ last_fetch = "ok"

====
